---- MODULE Spec2Model ----
(***************************************************************************)
(* Model of the chart tool of dexter: normalizeChartData and               *)
(* formatDateLabel (src/tools/finance/chart.ts), and the generate_chart    *)
(* pipeline through saveChartAsHTML (src/utils/chart-generator.ts).        *)
(*                                                                         *)
(* JavaScript values are tagged records.  Numbers are the integers plus    *)
(* NaN and the two infinities; strings are TLA+ strings, taken apart       *)
(* character by character with SubSeq.  An object is the sequence of its   *)
(* own properties in creation order; Object.entries reorders it the way    *)
(* the language does.                                                      *)
(***************************************************************************)
EXTENDS Integers, Sequences, FiniteSets, TLC

VARIABLES op, data, pc, normalized, filepath, viewer, toolResult, dateLabel

vars == <<op, data, pc, normalized, filepath, viewer, toolResult, dateLabel>>

(***************************************************************************)
(* Bounds of the explored inputs.                                          *)
(***************************************************************************)
MaxLen == 3
MaxFields == 2
MaxEntries == 2

(***************************************************************************)
(* JavaScript values.                                                      *)
(***************************************************************************)
JNull == [t |-> "null"]
JUndef == [t |-> "undefined"]
JBool(b) == [t |-> "boolean", b |-> b]
Num(n) == [t |-> "number", k |-> "fin", n |-> n]
NaN == [t |-> "number", k |-> "nan", n |-> 0]
PosInf == [t |-> "number", k |-> "inf", n |-> 1]
NegInf == [t |-> "number", k |-> "inf", n |-> -1]
Str(s) == [t |-> "string", s |-> s]
Arr(a) == [t |-> "array", a |-> a]
Obj(e) == [t |-> "object", e |-> e]
None == [t |-> "none"]

\* typeof x
typeof(v) ==
  CASE v.t = "number" -> "number"
    [] v.t = "string" -> "string"
    [] v.t = "boolean" -> "boolean"
    [] v.t = "undefined" -> "undefined"
    [] OTHER -> "object"

\* Array.isArray(x)
isArray(v) == v.t = "array"

\* ToBoolean(x), the test behind `!x`, `x && ...` and `x || ...`
truthy(v) ==
  CASE v.t = "null" -> FALSE
    [] v.t = "undefined" -> FALSE
    [] v.t = "boolean" -> v.b
    [] v.t = "number" -> ~(v.k = "nan" \/ (v.k = "fin" /\ v.n = 0))
    [] v.t = "string" -> v.s # ""
    [] OTHER -> TRUE

\* isNaN(x) on a number
isNaN(v) == v.t = "number" /\ v.k = "nan"

(***************************************************************************)
(* Characters and numerals.                                                *)
(***************************************************************************)
Digits == <<"0", "1", "2", "3", "4", "5", "6", "7", "8", "9">>

CharAt(s, i) == SubSeq(s, i, i)

IsDigit(c) == \E i \in 1..Len(Digits) : Digits[i] = c

DigitVal(c) == (CHOOSE i \in 1..Len(Digits) : Digits[i] = c) - 1

RECURSIVE DigitsValue(_, _, _)
\* value of the digit run s[from..to]
DigitsValue(s, from, to) ==
  IF to < from THEN 0
  ELSE DigitsValue(s, from, to - 1) * Len(Digits) + DigitVal(CharAt(s, to))

RECURSIVE DigitRunEnd(_, _)
\* index of the last character of the digit run that starts at i (i - 1 if none)
DigitRunEnd(s, i) ==
  IF i <= Len(s) /\ IsDigit(CharAt(s, i)) THEN DigitRunEnd(s, i + 1) ELSE i - 1

RECURSIVE SkipSpace(_, _)
SkipSpace(s, i) ==
  IF i <= Len(s) /\ CharAt(s, i) = " " THEN SkipSpace(s, i + 1) ELSE i

HasPrefixAt(s, i, p) ==
  /\ i + Len(p) - 1 <= Len(s)
  /\ SubSeq(s, i, i + Len(p) - 1) = p

\* parseFloat(s) for strings without a fraction or an exponent: leading
\* blanks, an optional sign, then "Infinity" or the longest run of digits
parseFloat(s) ==
  LET i == SkipSpace(s, 1)
      neg == i <= Len(s) /\ CharAt(s, i) = "-"
      signed == i <= Len(s) /\ CharAt(s, i) \in {"-", "+"}
      j == IF signed THEN i + 1 ELSE i
      last == DigitRunEnd(s, j)
  IN  IF HasPrefixAt(s, j, "Infinity") THEN (IF neg THEN NegInf ELSE PosInf)
      ELSE IF last < j THEN NaN
      ELSE Num((IF neg THEN -1 ELSE 1) * DigitsValue(s, j, last))

\* String(x) of a number
NumToString(v) ==
  CASE v.k = "nan" -> "NaN"
    [] v.k = "inf" -> (IF v.n < 0 THEN "-Infinity" ELSE "Infinity")
    [] OTHER -> ToString(v.n)

RECURSIVE JString(_)
RECURSIVE JoinFrom(_, _)
\* Array.prototype.join(",") from element i on
JoinFrom(a, i) ==
  IF i > Len(a) THEN ""
  ELSE (IF a[i].t \in {"null", "undefined"} THEN "" ELSE JString(a[i]))
       \o (IF i < Len(a) THEN "," ELSE "")
       \o JoinFrom(a, i + 1)

\* String(x)
JString(v) ==
  CASE v.t = "string" -> v.s
    [] v.t = "number" -> NumToString(v)
    [] v.t = "null" -> "null"
    [] v.t = "undefined" -> "undefined"
    [] v.t = "boolean" -> (IF v.b THEN "true" ELSE "false")
    [] v.t = "array" -> JoinFrom(v.a, 1)
    [] OTHER -> "[object Object]"

(***************************************************************************)
(* Properties and their enumeration order.                                 *)
(***************************************************************************)
\* obj[key]: the own property, undefined when absent
Get(o, key) ==
  IF o.t = "object" /\ \E i \in 1..Len(o.e) : o.e[i][1] = key
  THEN o.e[CHOOSE i \in 1..Len(o.e) : o.e[i][1] = key][2]
  ELSE JUndef

\* a key that is a canonical array index ("0", "7", "12", not "07")
IsArrayIndex(key) ==
  /\ Len(key) >= 1
  /\ \A i \in 1..Len(key) : IsDigit(CharAt(key, i))
  /\ (Len(key) = 1 \/ CharAt(key, 1) # "0")

KeyIndex(key) == DigitsValue(key, 1, Len(key))

\* entries with array-index keys, ascending by index (keys are distinct)
SortByIndex(e) ==
  LET Rank(i) == 1 + Cardinality({j \in 1..Len(e) : KeyIndex(e[j][1]) < KeyIndex(e[i][1])})
  IN  [p \in 1..Len(e) |-> e[CHOOSE i \in 1..Len(e) : Rank(i) = p]]

\* own property keys in enumeration order: array indices ascending, then
\* the other keys in creation order
OwnEntries(e) ==
  LET IsIdx(p) == IsArrayIndex(p[1])
      NotIdx(p) == ~IsArrayIndex(p[1])
  IN  SortByIndex(SelectSeq(e, IsIdx)) \o SelectSeq(e, NotIdx)

\* Object.entries(x); threw is set for null and undefined (TypeError)
ObjectEntries(v) ==
  CASE v.t = "object" -> [threw |-> FALSE, entries |-> OwnEntries(v.e)]
    [] v.t = "array" ->
         [threw |-> FALSE,
          entries |-> [i \in 1..Len(v.a) |-> <<ToString(i - 1), v.a[i]>>]]
    [] v.t = "string" ->
         [threw |-> FALSE,
          entries |-> [i \in 1..Len(v.s) |-> <<ToString(i - 1), Str(CharAt(v.s, i))>>]]
    [] v.t \in {"null", "undefined"} -> [threw |-> TRUE, entries |-> <<>>]
    [] OTHER -> [threw |-> FALSE, entries |-> <<>>]

(***************************************************************************)
(* Dates: new Date(s) for date-only ISO strings, read back in a local zone *)
(* that is either at or east of UTC (shift 0) or west of it (shift -1: the *)
(* UTC midnight the string denotes falls on the previous local day).       *)
(***************************************************************************)
LocalDayShift == {0, -1}

LabelFallbackLen == 10

MonthShort ==
  <<"Jan", "Feb", "Mar", "Apr", "May", "Jun",
    "Jul", "Aug", "Sep", "Oct", "Nov", "Dec">>

IsLeap(y) == (y % 4 = 0 /\ y % 100 # 0) \/ y % 400 = 0

DaysInMonth(y, m) ==
  CASE m = 2 -> (IF IsLeap(y) THEN 29 ELSE 28)
    [] m \in {4, 6, 9, 11} -> 30
    [] OTHER -> 31

InvalidDate == [valid |-> FALSE, y |-> 0, m |-> 0, d |-> 0]

\* new Date(dateStr): never throws; a string that is not a calendar date
\* gives the Invalid Date object
NewDate(s) ==
  IF /\ Len(s) = Len("YYYY-MM-DD")
     /\ \A i \in {1, 2, 3, 4, 6, 7, 9, 10} : IsDigit(CharAt(s, i))
     /\ CharAt(s, 5) = "-"
     /\ CharAt(s, 8) = "-"
  THEN LET y == DigitsValue(s, 1, 4)
           m == DigitsValue(s, 6, 7)
           d == DigitsValue(s, 9, 10)
       IN  IF m \in 1..Len(MonthShort) /\ d \in 1..DaysInMonth(y, m)
           THEN [valid |-> TRUE, y |-> y, m |-> m, d |-> d]
           ELSE InvalidDate
  ELSE InvalidDate

\* the calendar day of the date in the local zone
LocalDate(date, tz) ==
  IF tz = 0 \/ ~date.valid THEN date
  ELSE IF date.d > 1 THEN [date EXCEPT !.d = date.d - 1]
  ELSE IF date.m > 1
       THEN [date EXCEPT !.m = date.m - 1, !.d = DaysInMonth(date.y, date.m - 1)]
  ELSE [date EXCEPT !.y = date.y - 1, !.m = Len(MonthShort),
                    !.d = DaysInMonth(date.y - 1, Len(MonthShort))]

\* date.toLocaleDateString('en-US', { month: 'short' })
toLocaleMonthShort(date, tz) ==
  IF date.valid THEN MonthShort[LocalDate(date, tz).m] ELSE "Invalid Date"

\* date.getDate()
getDate(date, tz) ==
  IF date.valid THEN Num(LocalDate(date, tz).d) ELSE NaN

\* the try block of formatDateLabel; none of its calls throws on a string
FormatDateTry(dateStr, tz) ==
  LET date == NewDate(dateStr)
  IN  [threw |-> FALSE,
       value |-> toLocaleMonthShort(date, tz) \o " " \o NumToString(getDate(date, tz))]

\* dateStr.slice(0, 10)
SliceLabel(dateStr) ==
  SubSeq(dateStr, 1, IF Len(dateStr) < LabelFallbackLen THEN Len(dateStr) ELSE LabelFallbackLen)

formatDateLabel(dateStr, tz) ==
  LET r == FormatDateTry(dateStr, tz)
  IN  IF r.threw THEN SliceLabel(dateStr) ELSE r.value

(***************************************************************************)
(* normalizeChartData.                                                     *)
(***************************************************************************)
Ok(obs) == [ok |-> TRUE, obs |-> obs]
Throw(msg) == [ok |-> FALSE, error |-> msg]

\* typeof v === 'number' ? v : parseFloat(String(v))
ToNum(v) == IF typeof(v) = "number" THEN v ELSE parseFloat(JString(v))

\* FirstIsNumeric without the numeric-string alternative
FirstIsNumberOnly(firstValue) == typeof(firstValue) = "number"

\* the test on the first value that selects the key -> number path
FirstIsNumeric(firstValue) ==
  \/ typeof(firstValue) = "number"
  \/ (typeof(firstValue) = "string" /\ ~isNaN(parseFloat(firstValue.s)))

\* the test on the first value that selects the nested period path
FirstIsPeriod(firstValue) ==
  truthy(firstValue) /\ typeof(firstValue) = "object" /\ ~isArray(firstValue)

RECURSIVE SegmentObservations(_, _)
\* for (const [key, value] of entries) { ... result.push({ value: num, label: key }) }
SegmentObservations(entries, i) ==
  IF i > Len(entries) THEN <<>>
  ELSE LET num == ToNum(entries[i][2])
       IN  (IF ~isNaN(num)
            THEN <<Obj(<< <<"value", num>>, <<"label", Str(entries[i][1])>> >>)>>
            ELSE <<>>)
           \o SegmentObservations(entries, i + 1)

\* entries[0] in place of the last entry
EarliestPeriod(entries) == entries[1]

\* entries[entries.length - 1]
LatestPeriod(entries) == entries[Len(entries)]

\* the loop over Object.entries(segments) of the latest period
PeriodObservations(entries) ==
  SegmentObservations(ObjectEntries(LatestPeriod(entries)[2]).entries, 1)

\* parseFloat(x) || 0
OrZero(v) == IF truthy(v) THEN v ELSE Num(0)

\* the value chain of an object element
ItemValue(obj) ==
  IF typeof(Get(obj, "value")) = "number" THEN Get(obj, "value")
  ELSE IF typeof(Get(obj, "value")) = "string" THEN OrZero(parseFloat(Get(obj, "value").s))
  ELSE IF typeof(Get(obj, "net_income")) = "number" THEN Get(obj, "net_income")
  ELSE IF typeof(Get(obj, "total_revenue")) = "number" THEN Get(obj, "total_revenue")
  ELSE IF typeof(Get(obj, "revenue")) = "number" THEN Get(obj, "revenue")
  ELSE IF typeof(Get(obj, "close")) = "number" THEN Get(obj, "close")
  ELSE Num(0)

\* the `continue` test of an object element
ItemSkipped(obj) ==
  /\ ItemValue(obj) = Num(0)
  /\ ~truthy(Get(obj, "value"))
  /\ ~truthy(Get(obj, "net_income"))
  /\ ~truthy(Get(obj, "total_revenue"))
  /\ ~truthy(Get(obj, "revenue"))
  /\ ~truthy(Get(obj, "close"))

IsNumber(v) == typeof(v) = "number"
IsString(v) == typeof(v) = "string"

\* the label chain of an object element
ItemLabel(obj, tz) ==
  IF IsString(Get(obj, "label")) THEN Get(obj, "label")
  ELSE IF IsString(Get(obj, "report_period"))
       THEN Str(formatDateLabel(Get(obj, "report_period").s, tz))
  ELSE IF IsString(Get(obj, "date")) THEN Str(formatDateLabel(Get(obj, "date").s, tz))
  ELSE IF IsNumber(Get(obj, "fiscal_year")) /\ IsNumber(Get(obj, "quarter"))
       THEN Str("Q" \o NumToString(Get(obj, "quarter")) \o " "
                \o NumToString(Get(obj, "fiscal_year")))
  ELSE IF IsNumber(Get(obj, "year")) /\ IsNumber(Get(obj, "quarter"))
       THEN Str("Q" \o NumToString(Get(obj, "quarter")) \o " "
                \o NumToString(Get(obj, "year")))
  ELSE IF IsNumber(Get(obj, "fiscal_year")) THEN Str(NumToString(Get(obj, "fiscal_year")))
  ELSE IF IsNumber(Get(obj, "year")) THEN Str(NumToString(Get(obj, "year")))
  ELSE JUndef

\* the date field of an object element
ItemDate(obj) ==
  IF IsString(Get(obj, "date")) THEN Get(obj, "date")
  ELSE IF IsString(Get(obj, "report_period")) THEN Get(obj, "report_period")
  ELSE JUndef

\* an open / high / low / close field of an object element
ItemPrice(obj, field) ==
  IF IsNumber(Get(obj, field)) THEN Get(obj, field)
  ELSE IF IsString(Get(obj, field)) THEN parseFloat(Get(obj, field).s)
  ELSE JUndef

\* the record pushed for an object element
ItemObservation(obj, tz) ==
  Obj(<< <<"value", ItemValue(obj)>>,
         <<"label", ItemLabel(obj, tz)>>,
         <<"date", ItemDate(obj)>>,
         <<"open", ItemPrice(obj, "open")>>,
         <<"high", ItemPrice(obj, "high")>>,
         <<"low", ItemPrice(obj, "low")>>,
         <<"close", ItemPrice(obj, "close")>> >>)

\* PointObservation with the label left zero-based
PointObservationZeroBased(num, i) ==
  Obj(<< <<"value", num>>, <<"label", Str("Point " \o ToString(i - 1))>> >>)

\* { value: item, label: `Point ${i + 1}` }, i counted from 1 here
PointObservation(num, i) ==
  Obj(<< <<"value", num>>, <<"label", Str("Point " \o ToString(i))>> >>)

\* what one array element adds to result
ElementObservations(item, i, tz) ==
  IF typeof(item) = "number" THEN <<PointObservation(item, i)>>
  ELSE IF typeof(item) = "string"
       THEN (IF ~isNaN(parseFloat(item.s))
             THEN <<PointObservation(parseFloat(item.s), i)>>
             ELSE <<>>)
  ELSE IF truthy(item) /\ typeof(item) = "object"
       THEN (IF ItemSkipped(item) THEN <<>> ELSE <<ItemObservation(item, tz)>>)
  ELSE <<>>

RECURSIVE ArrayObservations(_, _, _)
\* for (let i = 0; i < data.length; i++) { ... }
ArrayObservations(a, i, tz) ==
  IF i > Len(a) THEN <<>>
  ELSE ElementObservations(a[i], i, tz) \o ArrayObservations(a, i + 1, tz)

\* NormalizeArray without the final result.length === 0 test
NormalizeArrayUnchecked(d, tz) ==
  IF ~isArray(d) \/ Len(d.a) = 0
  THEN Throw("Data must be a non-empty array or object with numeric values")
  ELSE Ok(ArrayObservations(d.a, 1, tz))

\* the array part of normalizeChartData, from the non-empty-array test on
NormalizeArray(d, tz) ==
  IF ~isArray(d) \/ Len(d.a) = 0
  THEN Throw("Data must be a non-empty array or object with numeric values")
  ELSE LET result == ArrayObservations(d.a, 1, tz)
       IN  IF Len(result) = 0
           THEN Throw("No valid numeric data found in input")
           ELSE Ok(result)

\* the object part of normalizeChartData; fell is set when control falls
\* through to the array part
NormalizeObject(d) ==
  LET entries == ObjectEntries(d).entries
      firstValue == entries[1][2]
      flat == IF FirstIsNumeric(firstValue) THEN SegmentObservations(entries, 1) ELSE <<>>
  IN  IF Len(entries) = 0 THEN [fell |-> TRUE, out |-> None]
      ELSE IF Len(flat) > 0 THEN [fell |-> FALSE, out |-> Ok(flat)]
      ELSE IF FirstIsPeriod(firstValue)
           THEN (IF ObjectEntries(LatestPeriod(entries)[2]).threw
                 THEN [fell |-> FALSE, out |-> Throw("TypeError")]
                 ELSE IF Len(PeriodObservations(entries)) > 0
                 THEN [fell |-> FALSE, out |-> Ok(PeriodObservations(entries))]
                 ELSE [fell |-> TRUE, out |-> None])
      ELSE [fell |-> TRUE, out |-> None]

normalizeChartData(d, tz) ==
  IF ~truthy(d) THEN Throw("Data is required")
  ELSE IF typeof(d) = "object" /\ ~isArray(d) /\ d.t # "null" /\ ~NormalizeObject(d).fell
       THEN NormalizeObject(d).out
  ELSE NormalizeArray(d, tz)

(***************************************************************************)
(* The inputs explored.                                                    *)
(***************************************************************************)
Field(key, v) == Obj(<< <<key, v>> >>)

\* elements of the arrays of up to MaxLen elements
ArrayElems ==
  {Num(0), Num(100), NaN, Str("200"), Str("abc"),
   Field("value", Num(0)), Field("irrelevant", Num(1)), Field("net_income", Num(75))}

\* further elements, each tried as the only element of an array
SingleElems ==
  {PosInf, Str("Infinity"), Str(" -12abc"), JNull, JBool(TRUE), Arr(<<Num(5)>>),
   Field("foo", Str("bar"))}

RECURSIVE SeqsUpTo(_, _)
\* the sequences over S of length at most n
SeqsUpTo(S, n) ==
  IF n = 0 THEN {<<>>}
  ELSE SeqsUpTo(S, n - 1)
         \cup {Append(q, x) : q \in {r \in SeqsUpTo(S, n - 1) : Len(r) = n - 1}, x \in S}

\* the fields an object element may carry
ItemKeys ==
  <<"value", "net_income", "total_revenue", "revenue", "close", "label",
    "report_period", "date", "fiscal_year", "year", "quarter",
    "open", "high", "low", "foo">>

FieldValues(key) ==
  CASE key = "value" -> {Num(0), Num(50), NaN, Str("75"), Str("abc"), Str("")}
    [] key = "net_income" -> {Num(0), Num(75), Str("75")}
    [] key = "total_revenue" -> {Num(60), Str("60")}
    [] key = "revenue" -> {Num(40)}
    [] key = "close" -> {Num(0), Num(12), Str("12")}
    [] key = "label" -> {Str("Q1")}
    [] key = "report_period" -> {Str("2024-03-01"), Str("FY2024 annual")}
    [] key = "date" -> {Str("2024-01-15"), Str("n/a")}
    [] key = "fiscal_year" -> {Num(2024)}
    [] key = "year" -> {Num(2023)}
    [] key = "quarter" -> {Num(2)}
    [] key = "open" -> {Num(11), Str("x")}
    [] key = "high" -> {Num(13)}
    [] key = "low" -> {Num(9)}
    [] OTHER -> {Str("bar")}

RECURSIVE FieldSeqs(_, _)
\* property lists of at most n fields, keys taken from ItemKeys[from..]
FieldSeqs(from, n) ==
  IF n = 0 \/ from > Len(ItemKeys) THEN {<<>>}
  ELSE FieldSeqs(from + 1, n)
         \cup {<< <<ItemKeys[from], v>> >> \o rest :
                 v \in FieldValues(ItemKeys[from]), rest \in FieldSeqs(from + 1, n - 1)}

ItemObjects == {Obj(e) : e \in FieldSeqs(1, MaxFields)}

\* keys and values of the top-level objects
TopKeys == {"2024-01-31", "2024-02-28", "2", "1"}

InnerObjects ==
  {Obj(<<>>),
   Obj(<< <<"A", Num(10)>>, <<"B", Num(20)>> >>),
   Obj(<< <<"A", Num(15)>>, <<"B", Num(25)>> >>),
   Obj(<< <<"B", Str("x")>>, <<"A", Str("7")>> >>),
   Obj(<< <<"2", Num(1)>>, <<"1", Num(2)>> >>)}

TopValues ==
  {Num(10), Num(0), NaN, Str("20"), Str("abc"), JNull, Arr(<<Num(5)>>)}
    \cup InnerObjects

DistinctKeys(e) == \A i, j \in 1..Len(e) : i # j => e[i][1] # e[j][1]

TopObjects ==
  {Obj(e) : e \in {q \in SeqsUpTo(TopKeys \X TopValues, MaxEntries) : DistinctKeys(q)}}

Atoms ==
  {JNull, JUndef, Num(0), Num(5), NaN, Str(""), Str("abc"), JBool(TRUE), JBool(FALSE)}

ChartInputs ==
  Atoms
    \cup {Arr(a) : a \in SeqsUpTo(ArrayElems, MaxLen)}
    \cup {Arr(<<o>>) : o \in ItemObjects \cup SingleElems}
    \cup TopObjects

\* the inputs of the fair specification: every shape, fewer values
LiveElems ==
  {Num(0), Num(100), Str("abc"), Field("value", Num(0)), Field("net_income", Num(75))}

LiveObjects ==
  {Obj(<<>>),
   Obj(<< <<"2024-01-31", Num(10)>> >>),
   Obj(<< <<"2024-01-31", JNull>> >>),
   Obj(<< <<"2024-01-31", Obj(<< <<"A", Num(10)>>, <<"B", Num(20)>> >>)>>,
          <<"2024-02-28", Obj(<< <<"A", Num(15)>>, <<"B", Num(25)>> >>)>> >>)}

LiveInputs ==
  Atoms
    \cup {Arr(a) : a \in SeqsUpTo(LiveElems, MaxLen)}
    \cup {Arr(<<o>>) : o \in SingleElems}
    \cup LiveObjects

DateStrings ==
  {"2024-01-15", "2024-03-01", "2023-01-01", "2024-12-31", "2024-13-45",
   "not-a-date-at-all", "FY2024 annual", "n/a", ""}

(***************************************************************************)
(* generate_chart and saveChartAsHTML, one action per step.                *)
(***************************************************************************)
\* formatToolResult(data, sourceUrls)
formatToolResult(d, urls) == [data |-> d, sourceUrls |-> urls]

\* the catch block of generate_chart
Failure(msg) == formatToolResult([success |-> FALSE, error |-> msg], <<>>)

\* the chart kind and the default title the tool passes on
ChartType == "line"

ChartPath == ".dexter/charts/financial_chart_0.html"

InitWith(inputs) ==
  /\ \/ op = "chart" /\ data \in inputs
     \/ op = "date" /\ data \in {Str(d) : d \in DateStrings}
  /\ pc = "start"
  /\ normalized = None
  /\ filepath = None
  /\ viewer = "idle"
  /\ toolResult = None
  /\ dateLabel = None

Init == InitWith(ChartInputs)

\* normalizeChartData(input.data) returns
NormalizeOk ==
  /\ op = "chart" /\ pc = "start"
  /\ \E tz \in LocalDayShift : normalized' = normalizeChartData(data, tz)
  /\ normalized'.ok
  /\ pc' = "mkdir"
  /\ UNCHANGED <<op, data, filepath, viewer, toolResult, dateLabel>>

\* normalizeChartData(input.data) throws and the catch block answers
NormalizeThrows ==
  /\ op = "chart" /\ pc = "start"
  /\ \E tz \in LocalDayShift : normalized' = normalizeChartData(data, tz)
  /\ ~normalized'.ok
  /\ toolResult' = Failure(normalized'.error)
  /\ pc' = "done"
  /\ UNCHANGED <<op, data, filepath, viewer, dateLabel>>

\* the charts directory exists or mkdirSync creates it
EnsureDir ==
  /\ pc = "mkdir"
  /\ pc' = "write"
  /\ UNCHANGED <<op, data, normalized, filepath, viewer, toolResult, dateLabel>>

\* mkdirSync throws
EnsureDirThrows ==
  /\ pc = "mkdir"
  /\ toolResult' = Failure("mkdir failed")
  /\ pc' = "done"
  /\ UNCHANGED <<op, data, normalized, filepath, viewer, dateLabel>>

\* writeFileSync(filepath, generateChartHTML(options)) succeeds
WriteFile ==
  /\ pc = "write"
  /\ filepath' = Str(ChartPath)
  /\ pc' = "open"
  /\ UNCHANGED <<op, data, normalized, viewer, toolResult, dateLabel>>

\* writeFileSync throws
WriteFileThrows ==
  /\ pc = "write"
  /\ toolResult' = Failure("write failed")
  /\ pc' = "done"
  /\ UNCHANGED <<op, data, normalized, filepath, viewer, dateLabel>>

\* await execAsync(cmd) resolves
OpenViewer ==
  /\ pc = "open"
  /\ viewer' = "opened"
  /\ pc' = "return"
  /\ UNCHANGED <<op, data, normalized, filepath, toolResult, dateLabel>>

\* OpenViewerFails with the rejection reaching the catch block of generate_chart
OpenViewerFailsPropagates ==
  /\ pc = "open"
  /\ viewer' = "failed"
  /\ toolResult' = Failure("viewer failed")
  /\ pc' = "done"
  /\ UNCHANGED <<op, data, normalized, filepath, dateLabel>>

\* await execAsync(cmd) rejects; the empty catch swallows the error
OpenViewerFails ==
  /\ pc = "open"
  /\ viewer' = "failed"
  /\ pc' = "return"
  /\ UNCHANGED <<op, data, normalized, filepath, toolResult, dateLabel>>

\* saveChartAsHTML returns the path and generate_chart answers
ReturnSuccess ==
  /\ pc = "return"
  /\ toolResult' = formatToolResult(
       [success |-> TRUE,
        message |-> "Chart generated and opened in browser",
        filepath |-> filepath.s,
        chartType |-> ChartType,
        dataPoints |-> Len(normalized.obs)], <<>>)
  /\ pc' = "done"
  /\ UNCHANGED <<op, data, normalized, filepath, viewer, dateLabel>>

\* formatDateLabel(dateStr) applied to a string
FormatDate ==
  /\ op = "date" /\ pc = "start"
  /\ \E tz \in LocalDayShift : dateLabel' = Str(formatDateLabel(data.s, tz))
  /\ pc' = "done"
  /\ UNCHANGED <<op, data, normalized, filepath, viewer, toolResult>>

Next ==
  \/ NormalizeOk
  \/ NormalizeThrows
  \/ EnsureDir
  \/ EnsureDirThrows
  \/ WriteFile
  \/ WriteFileThrows
  \/ OpenViewer
  \/ OpenViewerFails
  \/ ReturnSuccess
  \/ FormatDate

Spec == Init /\ [][Next]_vars

\* every step of the tool call that is enabled is eventually taken
FairSpec == InitWith(LiveInputs) /\ [][Next]_vars /\ WF_vars(Next)
(***************************************************************************)
(* Properties.                                                             *)
(***************************************************************************)
Observations == normalized.obs

ValueOf(o) == Get(o, "value")

LabelOf(o) == Get(o, "label")

Normalized == op = "chart" /\ normalized # None

\* the observations the entries of a key -> number map stand for: the
\* entries whose value parses, each as { value, label: key }
ParsedEntries(entries) ==
  LET Parses(p) == ~isNaN(ToNum(p[2]))
      kept == SelectSeq(entries, Parses)
  IN  [i \in 1..Len(kept) |->
         Obj(<< <<"value", ToNum(kept[i][2])>>, <<"label", Str(kept[i][1])>> >>)]

IsPlainObject(d) == d.t = "object"

\* a number that is neither NaN nor an infinity
isFinite(v) == v.t = "number" /\ v.k = "fin"

\* a number, or a string that parses as one
IsNumericValue(v) ==
  v.t = "number" \/ (v.t = "string" /\ parseFloat(v.s) # NaN)

\* C1: in an array input an object element whose value field is the number 0
\* is kept as an observation of value 0 and an element with none of the five
\* value fields is skipped; [{value: 0}, {irrelevant: 1}] gives exactly one
\* observation, of value 0.
C1_ZeroValueRetained ==
  Normalized /\ isArray(data) =>
    /\ (\E i \in 1..Len(data.a) :
          IsPlainObject(data.a[i]) /\ Get(data.a[i], "value") = Num(0))
         => /\ normalized.ok
            /\ \E j \in 1..Len(Observations) : ValueOf(Observations[j]) = Num(0)
    /\ data = Arr(<<Field("value", Num(0)), Field("irrelevant", Num(1))>>)
         => /\ normalized.ok
            /\ Len(Observations) = 1
            /\ ValueOf(Observations[1]) = Num(0)

ValueFields == <<"value", "net_income", "total_revenue", "revenue", "close">>

\* a field that is present and is a number or a numeric-parsable string
NumericField(obj, f) ==
  \/ (typeof(Get(obj, f)) = "number" /\ ~isNaN(Get(obj, f)))
  \/ (typeof(Get(obj, f)) = "string" /\ ~isNaN(parseFloat(Get(obj, f).s)))

HasNumericField(obj) == \E k \in 1..Len(ValueFields) : NumericField(obj, ValueFields[k])

\* the parsed number of the first numeric field in the fixed order
ChainValue(obj) ==
  LET k == CHOOSE n \in 1..Len(ValueFields) :
             /\ NumericField(obj, ValueFields[n])
             /\ \A m \in 1..(n - 1) : ~NumericField(obj, ValueFields[m])
  IN  ToNum(Get(obj, ValueFields[k]))

\* C2: the value of an object element is the parsed number of the first of
\* value, net_income, total_revenue, revenue, close that is a number or a
\* numeric string; a non-numeric field is passed over for the next one.
\* (Stated for elements whose chain value is not 0; value 0 is C1's case.)
C2_FallbackChain ==
  (/\ Normalized /\ isArray(data) /\ Len(data.a) > 0
   /\ \A i \in 1..Len(data.a) :
        /\ IsPlainObject(data.a[i])
        /\ HasNumericField(data.a[i])
        /\ ChainValue(data.a[i]) # Num(0))
    => /\ normalized.ok
       /\ Len(Observations) = Len(data.a)
       /\ \A i \in 1..Len(data.a) : ValueOf(Observations[i]) = ChainValue(data.a[i])

\* C3: every observation of every returned sequence has a finite value.
C3_FiniteValues ==
  Normalized /\ normalized.ok =>
    \A i \in 1..Len(Observations) : isFinite(ValueOf(Observations[i]))

\* C4: normalizeChartData never returns an empty sequence; null, [], {} and
\* [{foo: "bar"}] end in the error outcome.
C4_NeverEmpty ==
  Normalized =>
    /\ normalized.ok => Len(Observations) >= 1
    /\ data \in {JNull, Arr(<<>>), Obj(<<>>), Arr(<<Field("foo", Str("bar"))>>)}
         => ~normalized.ok

C4_Witness ==
  /\ Normalized
  /\ data = Arr(<<Field("foo", Str("bar"))>>)
  /\ ~normalized.ok

Succeeded == toolResult.data.success

C5_Outcome ==
  op = "chart" /\ pc = "done" =>
    /\ toolResult # None
    /\ Succeeded = (normalized.ok /\ filepath # None)
    /\ ~Succeeded => "error" \in DOMAIN toolResult.data
    /\ viewer = "failed" => Succeeded

\* C5: generate_chart always ends with a structured result: success exactly
\* when normalization and the artifact write succeeded, an error message
\* otherwise, and a failed viewer launch leaves a success a success.
C5_StructuredResult == [](C5_Outcome) /\ ((op = "chart") ~> (pc = "done"))

C5_Witness == pc = "done" /\ viewer = "failed" /\ Succeeded

IsNumberArray(d) ==
  isArray(d) /\ Len(d.a) > 0 /\ \A i \in 1..Len(d.a) : typeof(d.a[i]) = "number"

\* C7: a non-empty array of numbers gives one observation per element, in
\* index order, the i-th with the i-th element as value and label "Point i".
C7_NumberArray ==
  Normalized /\ IsNumberArray(data) =>
    /\ normalized.ok
    /\ Len(Observations) = Len(data.a)
    /\ \A i \in 1..Len(data.a) :
         /\ ValueOf(Observations[i]) = data.a[i]
         /\ LabelOf(Observations[i]) = Str("Point " \o ToString(i))

C7_Witness ==
  /\ Normalized /\ IsNumberArray(data) /\ Len(data.a) >= 2
  /\ data.a[1] # data.a[2]
  /\ Len(Observations) = Len(data.a)

C9_RoundTrip ==
  Normalized /\ normalized.ok =>
    /\ \A i \in 1..Len(Observations) : typeof(ValueOf(Observations[i])) = "number"
    /\ \A tz \in LocalDayShift : normalizeChartData(Arr(Observations), tz).ok

\* C10: formatDateLabel returns a string for every string: "{month} {day}"
\* when the string is a calendar date, its first 10 characters otherwise.
C10_DateLabel ==
  op = "date" /\ pc = "done" =>
    /\ typeof(dateLabel) = "string"
    /\ IF NewDate(data.s).valid
       THEN \E m \in 1..Len(MonthShort) :
              \E d \in 1..DaysInMonth(NewDate(data.s).y, m) :
                dateLabel.s = MonthShort[m] \o " " \o ToString(d)
       ELSE dateLabel.s = SliceLabel(data.s)
====
